---- MODULE Spec2Model ----
(***************************************************************************)
(* Model of the CSV structure repair core of the Library of Jormungandr:   *)
(*   core/csv_repair_tool.py  CSVRepairTool (field counter, quote balance  *)
(*                            checker, mismatch detector, repair session)  *)
(*   core/user_input.py       confirm_action, edit_text_interactive,       *)
(*                            edit_line_interactive, choose_from_list,     *)
(*                            show_issue_and_prompt_fix                    *)
(*                                                                         *)
(*   core/base_tool.py        BaseTool.run                                 *)
(*                                                                         *)
(* A text is a sequence of one-character strings.  The specifications:     *)
(*   SpecLine    the two per-line functions applied to one line            *)
(*   SpecDetect  _detect_field_mismatches applied to one document          *)
(*   Spec        one process() run, prompt by prompt                       *)
(*   FairSpec    Spec with every prompt answered validly in the end        *)
(*   SpecCalls   one call of a function of user_input.py or of             *)
(*               BaseTool.run, input by input                              *)
(*   SpecEdit    either a process() run or one such call                   *)
(***************************************************************************)
EXTENDS Integers, Sequences, FiniteSets

VARIABLES
    arg_line,        \* SpecLine: the line handed to the per-line functions
    ret_count,       \* SpecLine: what _count_fields_respecting_quotes returned
    ret_unbalanced,  \* SpecLine: what _has_unbalanced_quotes returned
    file,            \* the lines f.readlines() yields (the original input)
    lines,           \* the list object `lines` of process(), mutated in place
    issues,          \* the list returned by _detect_field_mismatches
    issues_again,    \* SpecDetect: the list returned by a second call
    pc,              \* where the run is suspended
    idx,             \* 1-based position of the for loop in `issues`
    rich,            \* whether prompt_toolkit can be imported in this run
    session_ret,     \* what _interactive_repair returned
    result,          \* what process() returned
    repairs_made,    \* self.repairs_made
    fixed_line,      \* the local fixed_line of _interactive_repair
    outcomes,        \* history: how each issue handled so far ended
    trace,           \* history: what the run did so far, in order
    call,            \* SpecCalls: the function called, its arguments and locals
    entered,         \* SpecCalls: history of what the user entered at its prompts
    call_ret         \* SpecCalls: what the call returned, or what it raised

linevars == <<arg_line, ret_count, ret_unbalanced>>
runvars == <<file, lines, issues, issues_again, pc, idx, rich, session_ret, result,
             repairs_made, fixed_line, outcomes, trace>>
callvars == <<call, entered, call_ret>>
vars == <<arg_line, ret_count, ret_unbalanced, file, lines, issues, issues_again,
          pc, idx, rich, session_ret, result, repairs_made, fixed_line, outcomes,
          trace, call, entered, call_ret>>

(***************************************************************************)
(* Bounds.                                                                 *)
(***************************************************************************)
MaxScanLen == 5      \* SpecLine: longest line scanned
MaxDetectLines == 3  \* SpecDetect: most lines in a document (header included)
MaxDetectLen == 1    \* SpecDetect: longest line body (terminator excluded)
MaxLines == 3        \* Spec: most lines in a document (header included)
MaxInputs == 3       \* SpecCalls: most inputs entered at the prompts of one call
MaxOptions == 3      \* SpecCalls: most options handed to choose_from_list
MaxFixes == 2        \* SpecCalls: most suggested fixes of show_issue_and_prompt_fix

(***************************************************************************)
(* Characters and texts.                                                   *)
(***************************************************************************)
Quote == "\""
Comma == ","
Space == " "
NL == "\n"
Letter == "a"

\* Python's None, and a value that is not None.
None == [some |-> FALSE]
Some(v) == [some |-> TRUE, val |-> v]

\* The characters of a line body; a line read from the file ends in NL.
Chars == {Letter, Comma, Quote, Space}
\* str.strip() removes these from both ends (of the characters modelled).
Whitespace == {Space, NL}

BoundedSeqs(S, n) == UNION {[1..k -> S] : k \in 0..n}

\* f.readlines() of a file with the line bodies d: every line is a body followed
\* by NL; only the last line may lack the NL (last_nl false).
ReadLines(d, last_nl) ==
    [i \in 1..Len(d) |-> IF i = Len(d) /\ ~last_nl THEN d[i] ELSE d[i] \o <<NL>>]

\* A last line without NL is there only if its body is not empty.
IsFile(d, last_nl) == last_nl \/ (d # <<>> /\ d[Len(d)] # <<>>)

\* str.strip()
RECURSIVE LStrip(_)
LStrip(s) ==
    IF s # <<>> /\ Head(s) \in Whitespace THEN LStrip(Tail(s)) ELSE s

RECURSIVE RStrip(_)
RStrip(s) ==
    IF s # <<>> /\ s[Len(s)] \in Whitespace
    THEN RStrip(SubSeq(s, 1, Len(s) - 1))
    ELSE s

Strip(s) == RStrip(LStrip(s))

\* str.count(ch)
RECURSIVE StrCount(_, _)
StrCount(s, ch) ==
    IF s = <<>> THEN 0
    ELSE (IF Head(s) = ch THEN 1 ELSE 0) + StrCount(Tail(s), ch)

\* '\n'.join(lines): a terminator put between the lines
RECURSIVE JoinWithNewlines(_)
JoinWithNewlines(ls) ==
    IF ls = <<>> THEN <<>>
    ELSE IF Len(ls) = 1 THEN Head(ls)
    ELSE Head(ls) \o <<NL>> \o JoinWithNewlines(Tail(ls))

\* ''.join(lines)
RECURSIVE Join(_)
Join(ls) == IF ls = <<>> THEN <<>> ELSE Head(ls) \o Join(Tail(ls))

(***************************************************************************)
(* The per-line functions.                                                 *)
(***************************************************************************)
\* _has_unbalanced_quotes, with the parity test wrong way round
HasUnbalancedQuotesEven(line) == StrCount(line, Quote) % 2 = 0

\* _has_unbalanced_quotes, counting every character instead of the quotes
HasUnbalancedQuotesAnyChar(line) == Len(line) % 2 # 0

\* _has_unbalanced_quotes
HasUnbalancedQuotes(line) == StrCount(line, Quote) % 2 # 0

\* The for loop of _count_fields_respecting_quotes from character i on.
RECURSIVE CountScan(_, _, _, _)
CountScan(line, i, inside_quotes, field_count) ==
    IF i > Len(line) THEN field_count
    ELSE IF line[i] = Quote
         THEN CountScan(line, i + 1, ~inside_quotes, field_count)
    ELSE IF line[i] = Comma /\ ~inside_quotes
         THEN CountScan(line, i + 1, inside_quotes, field_count + 1)
    ELSE CountScan(line, i + 1, inside_quotes, field_count)

\* _count_fields_respecting_quotes, counting every comma (the quote state ignored)
CountFieldsIgnoringQuotes(line) == 1 + StrCount(line, Comma)

\* _count_fields_respecting_quotes, starting the count at 0
CountFieldsFromZero(line) == CountScan(line, 1, FALSE, 0)

\* _count_fields_respecting_quotes
CountFieldsRespectingQuotes(line) == CountScan(line, 1, FALSE, 1)

(***************************************************************************)
(* The mismatch detector.                                                  *)
(***************************************************************************)
\* The issue_type strings: "Unbalanced quotes" and the f-string
\* f"Has {field_count} fields, expected {expected_fields}".
UnbalancedQuotes == <<"Unbalanced quotes">>
FieldCountMismatch(found, expected) == <<"Has", found, "fields, expected", expected>>

Issue(line_num, line_content, issue_type) ==
    [line_num |-> line_num, line_content |-> line_content, issue_type |-> issue_type]

\* `if not line.strip()` with the strip forgotten
IsBlankUnstripped(line) == line = <<>>

\* `if not line.strip()`: the line is empty or whitespace only
IsBlank(line) == Strip(line) = <<>>

\* `field_count != expected_fields` written as "too few fields"
FieldsMismatchFewer(field_count, expected_fields) == field_count < expected_fields

\* `if field_count != expected_fields`
FieldsMismatch(field_count, expected_fields) == field_count # expected_fields

\* issues.append(...) written as an insert at the front
EmitFront(acc, issue) == <<issue>> \o acc

\* issues.append(...)
Emit(acc, issue) == Append(acc, issue)

\* The for loop of _detect_field_mismatches, at list position i (line number i).
\* the issue keeping the line as read, whitespace and terminator included
IssueContentRaw(line) == line

\* `line.strip()`: the content an issue is recorded with
IssueContent(line) == Strip(line)

RECURSIVE DetectLoop(_, _, _, _)
DetectLoop(ls, i, expected_fields, acc) ==
    IF i > Len(ls) THEN acc
    ELSE IF IsBlank(ls[i])
         THEN DetectLoop(ls, i + 1, expected_fields, acc)
    ELSE IF HasUnbalancedQuotes(ls[i])
         THEN DetectLoop(ls, i + 1, expected_fields,
                         Emit(acc, Issue(i, IssueContent(ls[i]), UnbalancedQuotes)))
    ELSE LET field_count == CountFieldsRespectingQuotes(ls[i]) IN
         IF FieldsMismatch(field_count, expected_fields)
         THEN DetectLoop(ls, i + 1, expected_fields,
                         Emit(acc, Issue(i, IssueContent(ls[i]),
                                         FieldCountMismatch(field_count, expected_fields))))
         ELSE DetectLoop(ls, i + 1, expected_fields, acc)

\* `issues = []` written so that the list of the previous call is kept
\* (a list held by the object and appended to)
KeptIssues == issues

\* `issues = []`: every call starts a new list
FreshIssues == <<>>

\* _detect_field_mismatches with the loop starting at the header
\* (enumerate(lines, start=1))
DetectFieldMismatchesFromHeader(ls) ==
    IF Len(ls) < 2 THEN <<>>
    ELSE DetectLoop(ls, 1, CountFieldsRespectingQuotes(ls[1]), FreshIssues)

\* _detect_field_mismatches
DetectFieldMismatches(ls) ==
    IF Len(ls) < 2 THEN <<>>
    ELSE DetectLoop(ls, 2, CountFieldsRespectingQuotes(ls[1]), FreshIssues)

(***************************************************************************)
(* Inputs.                                                                 *)
(***************************************************************************)
\* SpecLine: every text of at most MaxScanLen characters, NL included.
ScanLines == BoundedSeqs(Chars \cup {NL}, MaxScanLen)

\* The documents of the specification's examples:
\*   header a,b,c with the data line 1,2
\*   header a,b,c with the data line x,"a,b
Example1 ==
    << <<"a", Comma, "b", Comma, "c", NL>>, <<"1", Comma, "2", NL>> >>
Example2 ==
    << <<"a", Comma, "b", Comma, "c", NL>>,
       <<"x", Comma, Quote, "a", Comma, "b", NL>> >>
ExampleDocuments == {Example1, Example2}

\* SpecDetect: the bodies of the lines of a document, at most MaxDetectLen
\* characters each.
DetectBodies == BoundedSeqs(Chars, MaxDetectLen)

\* Spec: the line bodies of a document under repair: a blank line, a one-field
\* line, a two-field line, a two-field line with surrounding whitespace and a line
\* with an unclosed quote.
RunBodies ==
    { <<>>,
      <<Letter>>,
      <<Letter, Comma, Letter>>,
      <<Space, Comma, Letter, Space>>,
      <<Quote, Letter>> }

\* The state of a run that has not started (SpecLine, SpecDetect: no run at all).
NoRun(f, p, r) ==
    /\ file = f
    /\ lines = <<>>
    /\ issues = <<>>
    /\ issues_again = <<>>
    /\ pc = p
    /\ idx = 0
    /\ rich = r
    /\ session_ret = "not called"
    /\ result = None
    /\ repairs_made = 0
    /\ fixed_line = None
    /\ outcomes = <<>>
    /\ trace = <<>>

NoLine ==
    /\ arg_line = <<>>
    /\ ret_count = None
    /\ ret_unbalanced = None

\* No call of SpecCalls is under way (SpecLine, SpecDetect, Spec).
NoCall ==
    /\ call = [fn |-> "none"]
    /\ entered = <<>>
    /\ call_ret = None

(***************************************************************************)
(* SpecLine: the per-line functions applied to one line.                   *)
(***************************************************************************)
InitLine ==
    /\ arg_line \in ScanLines
    /\ ret_count = None
    /\ ret_unbalanced = None
    /\ NoRun(<<>>, "line", FALSE)
    /\ NoCall

CallCountFields ==
    /\ pc = "line"
    /\ ret_count = None
    /\ ret_count' = Some(CountFieldsRespectingQuotes(arg_line))
    /\ UNCHANGED <<arg_line, ret_unbalanced, runvars, callvars>>

CallHasUnbalancedQuotes ==
    /\ pc = "line"
    /\ ret_unbalanced = None
    /\ ret_unbalanced' = Some(HasUnbalancedQuotes(arg_line))
    /\ UNCHANGED <<arg_line, ret_count, runvars, callvars>>

NextLine == CallCountFields \/ CallHasUnbalancedQuotes

SpecLine == InitLine /\ [][NextLine]_vars

(***************************************************************************)
(* SpecDetect: the mismatch detector applied to one document.              *)
(***************************************************************************)
InitDetect ==
    /\ \/ \E n \in 0..MaxDetectLines : \E d \in [1..n -> DetectBodies] :
            \E last_nl \in BOOLEAN :
                /\ IsFile(d, last_nl)
                /\ NoRun(ReadLines(d, last_nl), "detect", FALSE)
       \/ \E e \in ExampleDocuments : NoRun(e, "detect", FALSE)
    /\ NoLine
    /\ NoCall

CallDetect ==
    /\ pc = "detect"
    /\ issues' = DetectFieldMismatches(file)
    /\ pc' = "detected"
    /\ UNCHANGED <<linevars, callvars, file, lines, issues_again, idx, rich, session_ret,
                   result, repairs_made, fixed_line, outcomes, trace>>

\* _detect_field_mismatches called a second time on the same list.
CallDetectAgain ==
    /\ pc = "detected"
    /\ issues_again' = DetectFieldMismatches(file)
    /\ pc' = "detected twice"
    /\ UNCHANGED <<linevars, callvars, file, lines, issues, idx, rich, session_ret,
                   result, repairs_made, fixed_line, outcomes, trace>>

NextDetect == CallDetect \/ CallDetectAgain

SpecDetect == InitDetect /\ [][NextDetect]_vars

(***************************************************************************)
(* The prompts (core/user_input.py).                                       *)
(***************************************************************************)
\* str.lower(), on the letters the inputs below use
Lower(c) ==
    CASE c = "Y" -> "y"
      [] c = "A" -> "a"
      [] c = "C" -> "c"
      [] c = "L" -> "l"
      [] c = "E" -> "e"
      [] c = "S" -> "s"
      [] c = "N" -> "n"
      [] c = "O" -> "o"
      [] c = "Q" -> "q"
      [] OTHER -> c

LowerStr(s) == [i \in DOMAIN s |-> Lower(s[i])]

\* What the user may type at a yes/no prompt.
ConfirmResponses ==
    { <<>>, <<Space>>, <<"y">>, <<"Y", "E", "S">>, <<"n">>, <<Space, "N", "o">>,
      <<"x">>, <<"y", "e", "p">> }

\* What the user may submit in the editor, besides the prefilled text itself.
UserTexts ==
    { <<>>, <<"Q">>, <<Letter, Comma, Letter>>, <<Space, Letter, Space>> }

\* confirm_action taking the default for an input it does not recognise
ConfirmReplyDefaultOnInvalid(raw, default) ==
    LET response == LowerStr(Strip(raw)) IN
    IF response \in {<<"y">>, <<"y", "e", "s">>} THEN Some(TRUE)
    ELSE IF response \in {<<"n">>, <<"n", "o">>} THEN Some(FALSE)
    ELSE Some(default)

\* One input() of confirm_action: Some(answer), or None when the input is
\* invalid and the function calls itself to ask again.
ConfirmReply(raw, default) ==
    LET response == LowerStr(Strip(raw)) IN
    IF response = <<>> THEN Some(default)
    ELSE IF response \in {<<"y">>, <<"y", "e", "s">>} THEN Some(TRUE)
    ELSE IF response \in {<<"n">>, <<"n", "o">>} THEN Some(FALSE)
    ELSE None

\* the fallback's cancel test with the full words only
CancelTokensLong == { <<"c", "a", "n", "c", "e", "l">>, <<"q", "u", "i", "t">> }

\* The tokens that cancel an edit in the plain-input fallback.
CancelTokens ==
    { <<"c", "a", "n", "c", "e", "l">>, <<"c">>, <<"q", "u", "i", "t">>, <<"q">> }

\* edit_text_interactive returning `edited` as it is at the prompt_toolkit
\* prompt, empty or not
EditTextInteractiveKeepsEmpty(has_prompt_toolkit, text, typed, interrupted) ==
    IF has_prompt_toolkit
    THEN IF interrupted THEN None ELSE Some(typed)
    ELSE LET response == Strip(typed) IN
         IF response = <<>> THEN Some(text)
         ELSE IF LowerStr(response) \in CancelTokens THEN None
         ELSE Some(response)

\* edit_text_interactive: `typed` is the text submitted, `interrupted` a Ctrl+C
\* at the prompt_toolkit prompt; has_prompt_toolkit is whether the import works.
EditTextInteractive(has_prompt_toolkit, text, typed, interrupted) ==
    IF has_prompt_toolkit
    THEN IF interrupted THEN None
         ELSE IF typed # <<>> THEN Some(typed) ELSE None
    ELSE LET response == Strip(typed) IN
         IF response = <<>> THEN Some(text)
         ELSE IF LowerStr(response) \in CancelTokens THEN None
         ELSE Some(response)

\* edit_line_interactive
EditLineInteractive(has_prompt_toolkit, line, typed, interrupted) ==
    EditTextInteractive(has_prompt_toolkit, line, typed, interrupted)

(***************************************************************************)
(* Spec: one process() run.  The run is suspended at the prompts:          *)
(*   "confirm_fix"    confirm_action("Do you want to fix line n?")         *)
(*   "edit"           edit_line_interactive(line_content, line_num)        *)
(*   "confirm_abort"  confirm_action("Cancel entire repair process?")      *)
(* and every action runs the code from one prompt's answer to the next     *)
(* prompt or to the return of process().                                   *)
(***************************************************************************)
\* the assignment with the line number taken one too low (lines[line_num - 2])
ListSetOneTooLow(ls, index, value) == [ls EXCEPT ![index] = value]

\* lines[index] = value with the index one too high
ListSetOneTooHigh(ls, index, value) ==
    IF index + 2 \in DOMAIN ls THEN [ls EXCEPT ![index + 2] = value] ELSE ls

\* lines[index] = value, for Python's 0-based index
ListSet(ls, index, value) == [ls EXCEPT ![index + 1] = value]

\* the assignment without the line terminator (lines[line_num - 1] = fixed_line)
ApplyFixNoNewline(ls, issue, content) ==
    ListSet(ls, issue.line_num - 1, content)

\* lines[line_num - 1] = fixed_line + '\n'
ApplyFix(ls, issue, content) ==
    ListSet(ls, issue.line_num - 1, content \o <<NL>>)

\* a skip that writes the displayed (trimmed) content back
SkipIssueRewrites(ls, issue) ==
    ListSet(ls, issue.line_num - 1, issue.line_content \o <<NL>>)

\* `continue`: the issue is skipped, the list is not written
SkipIssue(ls, issue) == ls

\* the abort returning the list instead of None
AbortReturnLines == "lines"

\* `return None` of _interactive_repair: which value the session returned
AbortReturn == "None"

\* process() without the `if lines is None` test: the joined lines in any case
ProcessReturnIgnoringCancel(ret, ls) == Some(Join(ls))

\* process() after _interactive_repair returned: None on cancellation, else the
\* joined lines
ProcessReturn(ret, ls) == IF ret = "None" THEN None ELSE Some(Join(ls))

\* An issue whose line was written.
IsFixed(outcome) == outcome = "Fixed"

\* repairs_made counting the lines that were written
RepairsMadeFixedOnly(ret, old) ==
    IF ret = "None" THEN old ELSE Len(SelectSeq(outcomes', IsFixed))

\* repairs_made after _interactive_repair returned
RepairsMade(ret, old) == IF ret = "None" THEN old ELSE Len(issues)

\* One entry of the history `trace`: what happened, and at which line number
\* (0 where no line is concerned).
Event(ev, line) == [ev |-> ev, line |-> line]

\* `if not lines:` never taken
NoLinesNever(ls) == FALSE

\* `if not lines:` of process()
NoLines(ls) == ls = <<>>

\* `return None` of process() for an empty file
EmptyFileReturn == None

\* a loop that does not move on to the next tuple
NextIndexRepeat(i) == i

\* `for line_num, line_content, issue_type in issues`: the next tuple
NextIndex(i) == i + 1

\* the loop running detection again on the edited list
LoopIssuesRedetected(given, ls) == DetectFieldMismatches(ls)

\* the loop iterates the list it was given: `issues` is not assigned in
\* _interactive_repair
LoopIssues(given, ls) == given

\* `if abort:` never taken
AbortIgnored(abort) == FALSE

\* `if abort:` of _interactive_repair
AbortConfirmed(abort) == abort

Init ==
    /\ \E n \in 0..MaxLines : \E d \in [1..n -> RunBodies] :
        \E last_nl \in BOOLEAN, r \in BOOLEAN :
            /\ IsFile(d, last_nl)
            /\ NoRun(ReadLines(d, last_nl), "start", r)
    /\ NoLine
    /\ NoCall

\* The issue is shown and "Do you want to fix line n?" is asked.
Present(issue) ==
    <<Event("present", issue.line_num), Event("ask fix", issue.line_num)>>

\* _interactive_repair returns `ret` and process() runs to its return.
SessionReturns(ret, ls) ==
    /\ session_ret' = ret
    /\ result' = ProcessReturn(ret, ls)
    /\ repairs_made' = RepairsMade(ret, repairs_made)
    /\ pc' = "done"
    /\ idx' = idx

\* The for loop moves to the next issue, or ends and returns the list.
NextIssue(ls, tr) ==
    IF idx < Len(issues)
    THEN /\ idx' = NextIndex(idx)
         /\ pc' = "confirm_fix"
         /\ trace' = tr \o Present(issues[idx'])
         /\ UNCHANGED <<session_ret, result, repairs_made>>
    ELSE /\ SessionReturns("lines", ls)
         /\ trace' = tr

\* process() from its start to the first prompt or to its return.
ProcessStart ==
    /\ pc = "start"
    /\ lines' = file
    /\ IF NoLines(file)
       THEN /\ result' = EmptyFileReturn
            /\ pc' = "done"
            /\ trace' = <<Event("error", 0)>>
            /\ UNCHANGED <<issues, idx, session_ret>>
       ELSE /\ issues' = DetectFieldMismatches(file)
            /\ IF issues' # <<>>
               THEN /\ pc' = "confirm_fix"
                    /\ idx' = 1
                    /\ session_ret' = "running"
                    /\ result' = None
                    /\ trace' = <<Event("detect", 0)>> \o Present(issues'[1])
               ELSE /\ pc' = "done"
                    /\ result' = Some(Join(file))
                    /\ trace' = <<Event("detect", 0)>>
                    /\ UNCHANGED <<idx, session_ret>>
    /\ UNCHANGED <<linevars, callvars, file, issues_again, rich, repairs_made, fixed_line,
                   outcomes>>

\* The user answers "Do you want to fix line n?" (default yes).
ConfirmFix ==
    /\ pc = "confirm_fix"
    /\ \E raw \in ConfirmResponses :
        LET should_fix == ConfirmReply(raw, TRUE)
            line_num == issues[idx].line_num IN
        IF should_fix = None
        THEN UNCHANGED <<lines, pc, idx, session_ret, result, repairs_made,
                         outcomes, trace>>
        ELSE IF should_fix.val
        THEN /\ pc' = "edit"
             /\ trace' = trace \o <<Event("fix: yes", line_num),
                                     Event("edit", line_num)>>
             /\ UNCHANGED <<lines, idx, session_ret, result, repairs_made, outcomes>>
        ELSE /\ lines' = SkipIssue(lines, issues[idx])
             /\ outcomes' = Append(outcomes, "Declined")
             /\ NextIssue(lines', Append(trace, Event("fix: no", line_num)))
    /\ UNCHANGED <<linevars, callvars, file, issues, issues_again, rich, fixed_line>>

\* The editor returns: the line is overwritten, or the abort question is asked.
EditLine ==
    /\ pc = "edit"
    /\ \E typed \in UserTexts \cup {issues[idx].line_content}, interrupted \in BOOLEAN :
        /\ interrupted => rich
        /\ fixed_line' = EditLineInteractive(rich, issues[idx].line_content,
                                             typed, interrupted)
    /\ LET line_num == issues[idx].line_num IN
       IF fixed_line' = None
       THEN /\ pc' = "confirm_abort"
            /\ trace' = trace \o <<Event("edit: cancel", line_num),
                                    Event("ask abort", line_num)>>
            /\ UNCHANGED <<lines, issues, idx, session_ret, result, repairs_made,
                           outcomes>>
       ELSE /\ lines' = ApplyFix(lines, issues[idx], fixed_line'.val)
            /\ issues' = LoopIssues(issues, lines')
            /\ outcomes' = Append(outcomes, "Fixed")
            /\ NextIssue(lines', trace \o <<Event("edit: text", line_num),
                                            Event("write", line_num)>>)
    /\ UNCHANGED <<linevars, callvars, file, issues_again, rich>>

\* The user answers "Cancel entire repair process?" (default no).
ConfirmAbort ==
    /\ pc = "confirm_abort"
    /\ \E raw \in ConfirmResponses :
        LET abort == ConfirmReply(raw, FALSE)
            line_num == issues[idx].line_num IN
        IF abort = None
        THEN UNCHANGED <<lines, pc, idx, session_ret, result, repairs_made,
                         outcomes, trace>>
        ELSE IF AbortConfirmed(abort.val)
        THEN /\ outcomes' = Append(outcomes, "Aborted")
             /\ SessionReturns(AbortReturn, lines)
             /\ trace' = Append(trace, Event(IF abort.val THEN "abort: yes"
                                                          ELSE "abort: no", line_num))
             /\ UNCHANGED lines
        ELSE /\ lines' = SkipIssue(lines, issues[idx])
             /\ outcomes' = Append(outcomes, "EditCancelled")
             /\ NextIssue(lines', Append(trace,
                    Event(IF abort.val THEN "abort: yes" ELSE "abort: no", line_num)))
    /\ UNCHANGED <<linevars, callvars, file, issues, issues_again, rich, fixed_line>>

Next == ProcessStart \/ ConfirmFix \/ EditLine \/ ConfirmAbort

Spec == Init /\ [][Next]_vars

\* A prompt that is re-asked after an invalid answer leaves the state as it
\* is; under this condition no prompt is re-asked for ever: every prompt gets
\* a valid answer in the end, and the code between two prompts runs.
FairSpec == Spec /\ WF_vars(Next)

\* The tokens that cancel at the numbered menu, besides '0'.
MenuCancelTokens ==
    { <<"c", "a", "n", "c", "e", "l">>, <<"c">>, <<"q">>, <<"q", "u", "i", "t">> }

Digits == {"0", "1", "2", "3", "4"}

DigitVal(c) ==
    CASE c = "0" -> 0 [] c = "1" -> 1 [] c = "2" -> 2 [] c = "3" -> 3 [] c = "4" -> 4

\* The value of a string of digits, most significant first.
RECURSIVE DigitsVal(_)
DigitsVal(ds) ==
    IF ds = <<>> THEN 0
    ELSE 10 * DigitsVal(SubSeq(ds, 1, Len(ds) - 1)) + DigitVal(ds[Len(ds)])

\* int(s): Some(value), or None for a ValueError.  Whitespace around the number
\* and one sign before the digits are accepted.
ParseInt(s) ==
    LET t == Strip(s)
        signed == t # <<>> /\ t[1] \in {"-", "+"}
        body == IF signed THEN Tail(t) ELSE t IN
    IF body = <<>> \/ \E i \in DOMAIN body : body[i] \notin Digits THEN None
    ELSE IF signed /\ t[1] = "-" THEN Some(0 - DigitsVal(body))
    ELSE Some(DigitsVal(body))

\* str.split(','): the pieces between the commas, empty ones included.
RECURSIVE SplitComma(_)
SplitComma(s) ==
    IF \A i \in DOMAIN s : s[i] # Comma THEN <<s>>
    ELSE LET i == CHOOSE k \in DOMAIN s :
                    s[k] = Comma /\ \A j \in 1..(k - 1) : s[j] # Comma IN
         <<SubSeq(s, 1, i - 1)>> \o SplitComma(SubSeq(s, i + 1, Len(s)))

\* the range test without its lower limit
ChoiceOutOfRangeHigh(choice, n) == choice > n

\* `choice < 1 or choice > len(options)`
ChoiceOutOfRange(choice, n) == choice < 1 \/ choice > n

\* One input() of choose_from_list over n options: [again |-> TRUE] when the
\* input is rejected and the function calls itself to ask again, else the value
\* returned: None on cancel, Some(list of 0-based indices).
ChooseReply(n, allow_multiple, raw) ==
    LET response == Strip(raw)
        pieces == IF allow_multiple THEN SplitComma(response) ELSE <<response>>
        choices == [k \in DOMAIN pieces |-> ParseInt(pieces[k])] IN
    IF response = <<"0">> \/ LowerStr(response) \in MenuCancelTokens
    THEN [again |-> FALSE, value |-> None]
    ELSE IF \E k \in DOMAIN choices : choices[k] = None
    THEN [again |-> TRUE]
    ELSE IF \E k \in DOMAIN choices : ChoiceOutOfRange(choices[k].val, n)
    THEN [again |-> TRUE]
    ELSE [again |-> FALSE,
          value |-> Some([k \in DOMAIN choices |-> choices[k].val - 1])]

\* What the user may type at the numbered menu, with what it says: the numbers
\* entered, in order (for a text that is a list of numbers), or that it is the
\* request to cancel.
MenuEntry(text, cancel, numeric, numbers) ==
    [text |-> text, cancel |-> cancel, numeric |-> numeric, numbers |-> numbers]

MenuInputs ==
    { MenuEntry(<<"0">>, TRUE, FALSE, <<>>),
      MenuEntry(<<Space, "Q">>, TRUE, FALSE, <<>>),
      MenuEntry(<<"C", "a", "n", "c", "e", "l">>, TRUE, FALSE, <<>>),
      MenuEntry(<<"1">>, FALSE, TRUE, <<1>>),
      MenuEntry(<<Space, "2", Space>>, FALSE, TRUE, <<2>>),
      MenuEntry(<<"3">>, FALSE, TRUE, <<3>>),
      MenuEntry(<<"4">>, FALSE, TRUE, <<4>>),
      MenuEntry(<<"1", "0">>, FALSE, TRUE, <<10>>),
      MenuEntry(<<"0", "0">>, FALSE, TRUE, <<0>>),
      MenuEntry(<<"-", "1">>, FALSE, TRUE, <<0 - 1>>),
      MenuEntry(<<"2", Comma, Space, "1">>, FALSE, TRUE, <<2, 1>>),
      MenuEntry(<<"1", Comma, "1">>, FALSE, TRUE, <<1, 1>>),
      MenuEntry(<<"0", Comma, "1">>, FALSE, TRUE, <<0, 1>>),
      MenuEntry(<<"1", Comma>>, FALSE, FALSE, <<>>),
      MenuEntry(<<>>, FALSE, FALSE, <<>>),
      MenuEntry(<<"x">>, FALSE, FALSE, <<>>) }

MenuTexts == {e.text : e \in MenuInputs}

\* What the user may type at the menu of show_issue_and_prompt_fix.
IssueMenuTexts == { <<"0">>, <<"1">>, <<Space, "2", Space>>, <<"3">>, <<"4">>, <<"x">> }

\* The contents show_issue_and_prompt_fix is called with.
IssueContents == { <<Letter, Comma, Letter>>, <<Space, Letter>> }

\* len(options) of show_issue_and_prompt_fix: the fixes, "edit manually" if
\* allowed, and "skip this issue"
IssueOptions(num_fixes, allow_edit) ==
    num_fixes + (IF allow_edit THEN 1 ELSE 0) + 1

\* the first test written `choice_index <= num_fixes`
IssueDecisionFixTooFar(num_fixes, allow_edit, choice_index) ==
    IF choice_index <= num_fixes THEN "apply_fix"
    ELSE IF allow_edit /\ choice_index = num_fixes THEN "edit"
    ELSE "skip"

\* The branch show_issue_and_prompt_fix takes for the chosen 0-based index.
IssueDecision(num_fixes, allow_edit, choice_index) ==
    IF choice_index < num_fixes THEN "apply_fix"
    ELSE IF allow_edit /\ choice_index = num_fixes THEN "edit"
    ELSE "skip"

(***************************************************************************)
(* SpecCalls: one call of a function of core/user_input.py, or of          *)
(* BaseTool.run.  The call is suspended at its prompts ("call"), every     *)
(* action runs the code from one input to the next prompt or to the        *)
(* return ("returned"); `entered` is the history of the inputs.            *)
(***************************************************************************)
\* What the user wants from the editor: keep the text, cancel (in the fallback
\* by typing `text`), or submit `text`.
Intent(kind, text) == [kind |-> kind, text |-> text]

\* The originals handed to edit_text_interactive.
EditTexts == { <<>>, <<Letter>>, <<Letter, Comma, Letter>>, <<Space, Letter>> }

\* The texts a user submits.
SubmitTexts ==
    { <<>>, <<Space>>, <<"b">>, <<Space, "b", Space>>, <<"q">>, <<Letter>> }

\* What a user types in the fallback to cancel.
CancelInputs ==
    { <<"c", "a", "n", "c", "e", "l">>, <<"C">>, <<Space, "Q", "u", "i", "t">>,
      <<"q", Space>>, <<"C", "A", "N", "C", "E", "L">> }

Intents ==
    {Intent("keep", <<>>)}
        \cup {Intent("cancel", t) : t \in CancelInputs}
        \cup {Intent("submit", t) : t \in SubmitTexts}

\* How the user carries out an intent at each backend.  prompt_toolkit:
\* "Edit the text below, press Enter when done, Ctrl+C to cancel." over the
\* prefilled text.  Fallback: "Enter new text (or press Enter to keep unchanged,
\* 'cancel to abort)".
Gesture(has_prompt_toolkit, text, intent) ==
    IF has_prompt_toolkit
    THEN CASE intent.kind = "keep" -> [typed |-> text, interrupted |-> FALSE]
           [] intent.kind = "cancel" -> [typed |-> <<>>, interrupted |-> TRUE]
           [] OTHER -> [typed |-> intent.text, interrupted |-> FALSE]
    ELSE CASE intent.kind = "keep" -> [typed |-> <<>>, interrupted |-> FALSE]
           [] OTHER -> [typed |-> intent.text, interrupted |-> FALSE]

\* How a call of validate_input or process ends inside BaseTool.run: with a
\* value, with an exception of class Exception (ValueError, OSError, EOFError
\* at an input(), ...), or with one that is a BaseException only (the
\* KeyboardInterrupt of a Ctrl+C at an input()).
ValidateOutcomes == {"True", "False", "Exception", "KeyboardInterrupt"}
ProcessOutcomes == {"text", "None", "Exception", "KeyboardInterrupt"}

\* run() left by an exception that it does not catch.
Raised(exc) == [raised |-> exc]

\* `except Exception as e:` of run()
Caught(exc) == exc = "Exception"

\* `if not self.validate_input(...)` never taken
ValidationIgnored(valid) == TRUE

\* `if not self.validate_input(...)`: process is reached when this holds
ValidationPassed(valid) == valid

\* A call that has not read any input yet.
NewCall(c) ==
    /\ call = c
    /\ entered = <<>>
    /\ call_ret = None
    /\ NoRun(<<>>, "call", FALSE)
    /\ NoLine

InitCalls ==
    \/ \E default \in BOOLEAN :
        NewCall([fn |-> "confirm_action", default |-> default])
    \/ \E n \in 0..MaxOptions, allow_multiple \in BOOLEAN :
        NewCall([fn |-> "choose_from_list", n |-> n,
                 allow_multiple |-> allow_multiple])
    \/ \E num_fixes \in 0..MaxFixes, allow_edit \in BOOLEAN,
          has_prompt_toolkit \in BOOLEAN, content \in IssueContents :
        NewCall([fn |-> "show_issue_and_prompt_fix", num_fixes |-> num_fixes,
                 allow_edit |-> allow_edit,
                 has_prompt_toolkit |-> has_prompt_toolkit,
                 problematic_content |-> content,
                 choice_index |-> None, edited |-> None, intent |-> None])
    \/ \E validate \in ValidateOutcomes, process \in ProcessOutcomes :
        NewCall([fn |-> "run", validate |-> validate, process |-> process])
    \/ \E has_prompt_toolkit \in BOOLEAN, text \in EditTexts, intent \in Intents :
        NewCall([fn |-> "edit_text_interactive",
                 has_prompt_toolkit |-> has_prompt_toolkit,
                 text |-> text, intent |-> intent])

\* What every action of a call leaves alone.
CallFrame ==
    UNCHANGED <<linevars, file, lines, issues, issues_again, idx, rich, session_ret,
                result, repairs_made, fixed_line, outcomes>>

\* confirm_action reads one input: it returns, or prints "Invalid input" and
\* calls itself with the same message and default.
ConfirmInput ==
    /\ pc = "call"
    /\ call.fn = "confirm_action"
    /\ Len(entered) < MaxInputs
    /\ \E raw \in ConfirmResponses :
        LET reply == ConfirmReply(raw, call.default) IN
        /\ entered' = Append(entered, raw)
        /\ IF reply = None
           THEN UNCHANGED <<pc, call_ret>>
           ELSE pc' = "returned" /\ call_ret' = reply
    /\ UNCHANGED <<call, trace>>
    /\ CallFrame

\* edit_text_interactive reads what the user does at the editor and returns.
EditTextInput ==
    /\ pc = "call"
    /\ call.fn = "edit_text_interactive"
    /\ LET g == Gesture(call.has_prompt_toolkit, call.text, call.intent) IN
        /\ entered' = IF g.interrupted THEN <<>> ELSE <<g.typed>>
        /\ call_ret' = EditTextInteractive(call.has_prompt_toolkit, call.text,
                                           g.typed, g.interrupted)
    /\ pc' = "returned"
    /\ UNCHANGED <<call, trace>>
    /\ CallFrame

\* choose_from_list reads one input: it returns, or prints the rejection and
\* calls itself with the same options, message and mode.
ChooseInput ==
    /\ pc = "call"
    /\ call.fn = "choose_from_list"
    /\ Len(entered) < MaxInputs
    /\ \E raw \in MenuTexts :
        LET reply == ChooseReply(call.n, call.allow_multiple, raw) IN
        /\ entered' = Append(entered, raw)
        /\ IF reply.again
           THEN UNCHANGED <<pc, call_ret>>
           ELSE pc' = "returned" /\ call_ret' = reply.value
    /\ UNCHANGED <<call, trace>>
    /\ CallFrame

\* show_issue_and_prompt_fix at its menu (choose_from_list in single-selection
\* mode) reads one input: the menu repeats, or returns and the branch is taken.
IssueMenuInput ==
    /\ pc = "call"
    /\ call.fn = "show_issue_and_prompt_fix"
    /\ Len(entered) < MaxInputs
    /\ \E raw \in IssueMenuTexts :
        LET choices == ChooseReply(IssueOptions(call.num_fixes, call.allow_edit),
                                   FALSE, raw) IN
        /\ entered' = Append(entered, raw)
        /\ IF choices.again
           THEN UNCHANGED <<pc, call, call_ret>>
           ELSE IF choices.value = None
           THEN /\ pc' = "returned"
                /\ call_ret' = None
                /\ UNCHANGED call
           ELSE LET choice_index == choices.value.val[1]
                    decision == IssueDecision(call.num_fixes, call.allow_edit,
                                              choice_index) IN
                /\ call' = [call EXCEPT !.choice_index = Some(choice_index)]
                /\ CASE decision = "apply_fix" ->
                            /\ pc' = "returned"
                            /\ call_ret' = Some([action |-> "apply_fix",
                                                 fix_index |-> choice_index])
                     [] decision = "edit" ->
                            /\ pc' = "call_edit"
                            /\ UNCHANGED call_ret
                     [] OTHER ->
                            /\ pc' = "returned"
                            /\ call_ret' = Some([action |-> "skip"])
    /\ UNCHANGED trace
    /\ CallFrame

\* the editor's None taken for "skip this issue"
EditDecisionSkipOnCancel(edited) ==
    IF edited = None THEN Some([action |-> "skip"])
    ELSE Some([action |-> "edit", edited_content |-> edited.val])

\* `if edited is None: return None`, else the decision 'edit' with the content
EditDecision(edited) ==
    IF edited = None THEN None
    ELSE Some([action |-> "edit", edited_content |-> edited.val])

\* show_issue_and_prompt_fix at the editor it opened for "edit manually".
IssueEditInput ==
    /\ pc = "call_edit"
    /\ call.fn = "show_issue_and_prompt_fix"
    /\ \E intent \in Intents :
        LET g == Gesture(call.has_prompt_toolkit, call.problematic_content, intent)
            edited == EditTextInteractive(call.has_prompt_toolkit,
                                          call.problematic_content,
                                          g.typed, g.interrupted) IN
        /\ entered' = IF g.interrupted THEN entered ELSE Append(entered, g.typed)
        /\ call' = [call EXCEPT !.edited = edited, !.intent = Some(intent)]
        /\ call_ret' = EditDecision(edited)
    /\ pc' = "returned"
    /\ UNCHANGED trace
    /\ CallFrame

\* run() left by the exception exc raised inside its try block.
RunExcept(exc) ==
    IF Caught(exc)
    THEN pc' = "returned" /\ call_ret' = None
    ELSE pc' = "raised" /\ call_ret' = Raised(exc)

\* BaseTool.run calls validate_input.
RunValidate ==
    /\ pc = "call"
    /\ call.fn = "run"
    /\ trace' = Append(trace, Event("validate_input", 0))
    /\ IF call.validate \in {"True", "False"}
       THEN IF ValidationPassed(call.validate = "True")
            THEN pc' = "call_process" /\ UNCHANGED call_ret
            ELSE pc' = "returned" /\ call_ret' = None
       ELSE RunExcept(call.validate)
    /\ UNCHANGED <<call, entered>>
    /\ CallFrame

\* BaseTool.run calls process and returns its result.
RunProcess ==
    /\ pc = "call_process"
    /\ call.fn = "run"
    /\ trace' = Append(trace, Event("process", 0))
    /\ CASE call.process = "text" ->
                pc' = "returned" /\ call_ret' = Some(<<Letter, NL>>)
         [] call.process = "None" ->
                pc' = "returned" /\ call_ret' = None
         [] OTHER -> RunExcept(call.process)
    /\ UNCHANGED <<call, entered>>
    /\ CallFrame

NextCalls ==
    \/ ConfirmInput
    \/ EditTextInput
    \/ ChooseInput
    \/ IssueMenuInput
    \/ IssueEditInput
    \/ RunValidate
    \/ RunProcess

SpecCalls == InitCalls /\ [][NextCalls]_vars

\* Either a process() run or one call: the editor as the repair session uses it
\* and as any other caller may.
InitEdit == Init \/ InitCalls
NextEdit == Next \/ NextCalls
SpecEdit == InitEdit /\ [][NextEdit]_vars

(***************************************************************************)
(* Definitions the properties are stated with, independent of the scans    *)
(* above.                                                                  *)
(***************************************************************************)
QuotePositions(line) == {i \in DOMAIN line : line[i] = Quote}
CommaPositions(line) == {i \in DOMAIN line : line[i] = Comma}
OddQuotes(line) == Cardinality(QuotePositions(line)) % 2 = 1

\* The commas preceded on the line by an even number of quote characters.
CommasOutsideQuotes(line) ==
    {i \in CommaPositions(line) :
        Cardinality({j \in QuotePositions(line) : j < i}) % 2 = 0}

FieldsOf(line) == 1 + Cardinality(CommasOutsideQuotes(line))

WhitespaceOnly(line) == \A i \in DOMAIN line : line[i] \in Whitespace

InsertAt(line, i, ch) == SubSeq(line, 1, i) \o <<ch>> \o SubSeq(line, i + 1, Len(line))
RemoveAt(line, i) == SubSeq(line, 1, i - 1) \o SubSeq(line, i + 1, Len(line))

\* The positions in `issues` of the issues about line number n.
IssuesAt(n) == {k \in DOMAIN issues : issues[k].line_num = n}

(***************************************************************************)
(* Properties of the mismatch detector (SpecDetect).                       *)
(***************************************************************************)
\* C4: a non-blank data line with an even number of quote characters has an
\* issue iff its quote-aware field count differs from the header's; the issue is
\* the only one of the line and carries the found and the expected count.  For
\* header a,b,c and data line 1,2 the issue list is exactly
\* [(2, "1,2", "Has 2 fields, expected 3")].
C4_MismatchIffCountsDiffer ==
    pc = "detected" =>
        /\ \A n \in 2..Len(file) :
            (~WhitespaceOnly(file[n]) /\ ~OddQuotes(file[n])) =>
                /\ (IssuesAt(n) # {}) <=> (FieldsOf(file[n]) # FieldsOf(file[1]))
                /\ Cardinality(IssuesAt(n)) <= 1
                /\ \A k \in IssuesAt(n) :
                    issues[k].issue_type =
                        FieldCountMismatch(FieldsOf(file[n]), FieldsOf(file[1]))
        /\ file = Example1 =>
            issues = << Issue(2, <<"1", Comma, "2">>, FieldCountMismatch(2, 3)) >>

\* C4 witness: detection has run on header a,b,c / data line 1,2 and flagged line 2.
C4_Witness ==
    /\ pc = "detected"
    /\ file = Example1
    /\ Len(issues) = 1
    /\ issues[1].line_num = 2

\* C5: a data line with an odd number of quote characters has exactly one issue,
\* diagnosed "Unbalanced quotes", whatever its field count; no line has more than
\* one issue.
C5_UnbalancedOnly ==
    pc = "detected" =>
        /\ \A n \in 2..Len(file) :
            OddQuotes(file[n]) =>
                /\ Cardinality(IssuesAt(n)) = 1
                /\ \A k \in IssuesAt(n) : issues[k].issue_type = UnbalancedQuotes
        /\ \A n \in 1..Len(file) : Cardinality(IssuesAt(n)) <= 1

\* C5 witness: the line x,"a,b (2 fields by the scan, header 3) is flagged once,
\* as unbalanced.
C5_Witness ==
    /\ pc = "detected"
    /\ file = Example2
    /\ FieldsOf(file[2]) # FieldsOf(file[1])
    /\ issues = << Issue(2, <<"x", Comma, Quote, "a", Comma, "b">>, UnbalancedQuotes) >>

\* C9: no issue is about an empty or whitespace-only data line, whatever the
\* header's field count.
C9_BlankNeverFlagged ==
    pc = "detected" =>
        \A n \in 2..Len(file) : WhitespaceOnly(file[n]) => IssuesAt(n) = {}

\* C9 witness: a header of 2 fields, a line of one space (other than its NL) that
\* is not flagged, next to a line that is.
C9_Witness ==
    /\ pc = "detected"
    /\ Len(file) = 3
    /\ FieldsOf(file[1]) = 2
    /\ file[2] = <<Space, NL>>
    /\ IssuesAt(2) = {}
    /\ IssuesAt(3) # {}

\* C10: the issue list is strictly increasing in line number.
C10_StrictlyIncreasing ==
    pc = "detected" =>
        \A i, j \in DOMAIN issues : i < j => issues[i].line_num < issues[j].line_num

\* C10 witness: a detection that returned two issues.
C10_Witness ==
    /\ pc = "detected"
    /\ Len(issues) >= 2

(***************************************************************************)
(* Properties of the per-line functions (SpecLine).                        *)
(***************************************************************************)
\* C6: on a line without quote characters the field counter returns 1 plus the
\* number of commas; the empty line has 1 field.
C6_NoQuoteCount ==
    ret_count # None =>
        /\ QuotePositions(arg_line) = {} =>
            ret_count.val = 1 + Cardinality(CommaPositions(arg_line))
        /\ arg_line = <<>> => ret_count.val = 1

\* C6 witness: a quote-free line with two commas was counted.
C6_Witness ==
    /\ ret_count # None
    /\ QuotePositions(arg_line) = {}
    /\ Cardinality(CommaPositions(arg_line)) = 2

\* C7: the field counter returns 1 plus the number of commas preceded by an even
\* number of quote characters; a comma inside a quoted section adds nothing.
C7_QuotedCommaSuppressed ==
    ret_count # None =>
        ret_count.val = 1 + Cardinality(CommasOutsideQuotes(arg_line))

\* C7 witness: a counted line with a comma inside a closed quoted section and a
\* comma outside it.
C7_Witness ==
    /\ ret_count # None
    /\ \E i, j, k \in DOMAIN arg_line :
        /\ i < j /\ j < k
        /\ QuotePositions(arg_line) = {i, k}
        /\ arg_line[j] = Comma
    /\ CommasOutsideQuotes(arg_line) # {}

\* C8: the balance check returns true iff the number of quote characters is odd,
\* and inserting a comma anywhere or removing any comma gives a line with the
\* same answer.
C8_UnbalancedIffOdd ==
    ret_unbalanced # None =>
        /\ ret_unbalanced.val = OddQuotes(arg_line)
        /\ \A i \in 0..Len(arg_line) :
            HasUnbalancedQuotes(InsertAt(arg_line, i, Comma)) = ret_unbalanced.val
        /\ \A i \in CommaPositions(arg_line) :
            HasUnbalancedQuotes(RemoveAt(arg_line, i)) = ret_unbalanced.val

\* C8 witness: a checked line with three quotes and a comma.
C8_Witness ==
    /\ ret_unbalanced = Some(TRUE)
    /\ Cardinality(QuotePositions(arg_line)) = 3
    /\ CommaPositions(arg_line) # {}

(***************************************************************************)
(* Properties of the repair session (Spec).                                *)
(***************************************************************************)
\* The user confirmed the abort at issue number idx.
Aborted ==
    /\ pc = "done"
    /\ outcomes # <<>>
    /\ outcomes[Len(outcomes)] = "Aborted"

\* Every issue was handled and every one of them was skipped.
AllSkipped ==
    /\ pc = "done"
    /\ issues # <<>>
    /\ Len(outcomes) = Len(issues)
    /\ \A j \in DOMAIN outcomes : outcomes[j] \in {"Declined", "EditCancelled"}

\* C1: after an abort at the k-th issue the list has its original length, a line
\* that differs from the input is the line of one of the issues 1..k-1 that was
\* fixed, and the lines of the issues k.. are the input's; after an abort at the
\* first issue the list equals the input.
C1_AbortLeavesLaterLines ==
    Aborted =>
        /\ Len(outcomes) = idx
        /\ Len(lines) = Len(file)
        /\ \A n \in DOMAIN file :
            lines[n] # file[n] =>
                \E j \in 1..(idx - 1) :
                    outcomes[j] = "Fixed" /\ issues[j].line_num = n
        /\ \A j \in idx..Len(issues) :
            lines[issues[j].line_num] = file[issues[j].line_num]
        /\ idx = 1 => lines = file

\* C1 witness: an abort at the second issue after the first one was fixed and its
\* line changed.
C1_Witness ==
    /\ Aborted
    /\ idx = 2
    /\ outcomes[1] = "Fixed"
    /\ lines[issues[1].line_num] # file[issues[1].line_num]

\* C2: once the user has confirmed the abort, _interactive_repair has returned
\* None and process() has returned None: no text is returned.
C2_AbortReturnsNone ==
    (outcomes # <<>> /\ outcomes[Len(outcomes)] = "Aborted") =>
        /\ pc = "done"
        /\ session_ret = "None"
        /\ result = None

\* C2 witness: an abort confirmed after an earlier issue was fixed, the list
\* holding the fix and process() returning None.
C2_Witness ==
    /\ Aborted
    /\ \E j \in 1..(idx - 1) : outcomes[j] = "Fixed"
    /\ lines # file
    /\ result = None
    /\ session_ret = "None"

\* C3: a session in which every issue was skipped (fix declined, or edit
\* cancelled and abort declined) returns the list with every line equal to the
\* input line, whitespace and terminator included.
C3_AllSkippedIdentical ==
    AllSkipped =>
        /\ session_ret = "lines"
        /\ lines = file
        /\ result = Some(Join(file))

\* C3 witness: two issues skipped, one each way, the second about a line with
\* leading and trailing blanks that the issue's content does not have.
C3_Witness ==
    /\ AllSkipped
    /\ outcomes = <<"Declined", "EditCancelled">>
    /\ file[issues[2].line_num] = <<Space, Comma, Letter, Space, NL>>
    /\ issues[2].line_content = <<Comma, Letter>>

IsPresent(e) == e.ev = "present"

\* The issues shown so far, in the order they were shown.
Presented == SelectSeq(trace, IsPresent)

\* The positions of the history at which `ev` happened for line n.
EventsAt(ev, n) == {i \in DOMAIN trace : trace[i] = Event(ev, n)}

\* The positions of the history at which `ev` happened.
Events(ev) == {i \in DOMAIN trace : trace[i].ev = ev}

\* C12: the issues shown so far are the first issues of the detected list, in
\* its order, with strictly increasing line numbers (so none is shown twice);
\* when the session has returned the list (no abort) every detected issue has
\* been shown exactly once.
C12_PresentedInOrderOnce ==
    /\ Len(Presented) <= Len(issues)
    /\ \A k \in DOMAIN Presented : Presented[k].line = issues[k].line_num
    /\ \A j, k \in DOMAIN Presented : j < k => Presented[j].line < Presented[k].line
    /\ (pc = "done" /\ session_ret = "lines") =>
        /\ Len(Presented) = Len(issues)
        /\ \A k \in DOMAIN issues :
            Cardinality(EventsAt("present", issues[k].line_num)) = 1

\* C12 witness: a session over two issues that ended without abort, both shown,
\* line 2 before line 3.
C12_Witness ==
    /\ pc = "done"
    /\ session_ret = "lines"
    /\ Len(Presented) = 2
    /\ Presented[1].line = 2
    /\ Presented[2].line = 3

\* C13: a step in which the editor returns content (after the user confirmed
\* the fix) overwrites the line of the current issue with that content followed
\* by a line terminator, changes no other line, and moves to the next issue, or
\* returns the list when the issue was the last.
C13_FixOverwritesOneLine ==
    [][(pc = "edit" /\ fixed_line' # None) =>
        LET n == issues[idx].line_num IN
        /\ Len(lines') = Len(lines)
        /\ lines'[n] = fixed_line'.val \o <<NL>>
        /\ \A m \in DOMAIN lines : m # n => lines'[m] = lines[m]
        /\ IF idx < Len(issues)
           THEN pc' = "confirm_fix" /\ idx' = idx + 1
           ELSE pc' = "done" /\ session_ret' = "lines"]_vars

\* C13 witness: the first of two issues was fixed with content that differs from
\* the original line, the list holds it with a terminator, and the second issue
\* is being asked about.
C13_Witness ==
    /\ pc = "confirm_fix"
    /\ idx = 2
    /\ outcomes = <<"Fixed">>
    /\ fixed_line # None
    /\ lines[issues[1].line_num] = fixed_line.val \o <<NL>>
    /\ lines[issues[1].line_num] # file[issues[1].line_num]
    /\ lines[issues[2].line_num] = file[issues[2].line_num]

\* The step records the answer `ev` as the next entry of the history.
Answers(ev) ==
    /\ Len(trace') > Len(trace)
    /\ trace'[Len(trace) + 1].ev = ev

\* C14: a step in which the user answers no to the fix question, or no to the
\* abort question after a cancelled edit, leaves every line as it was and moves
\* to the next issue, or returns the list when the issue was the last; when the
\* fix was declined the editor was not invoked for that issue.
C14_SkipLeavesDocument ==
    [][(Answers("fix: no") \/ Answers("abort: no")) =>
        /\ lines' = lines
        /\ IF idx < Len(issues)
           THEN pc' = "confirm_fix" /\ idx' = idx + 1
           ELSE pc' = "done" /\ session_ret' = "lines"
        /\ Answers("fix: no") =>
            \A i \in DOMAIN trace' : trace'[i] # Event("edit", issues[idx].line_num)
        /\ Answers("abort: no") =>
            /\ pc = "confirm_abort"
            /\ fixed_line = None]_vars

\* C14 witness: the first issue's edit was cancelled and the abort declined, the
\* second issue's fix was declined, and the list still equals the input although
\* the second issue's line has blanks its displayed content lacks.
C14_Witness ==
    /\ pc = "done"
    /\ outcomes = <<"EditCancelled", "Declined">>
    /\ Events("abort: no") # {}
    /\ Events("fix: no") # {}
    /\ lines = file
    /\ file[issues[2].line_num] # issues[2].line_content \o <<NL>>

\* C15: a cancelled edit is followed at once by the abort question, asked once
\* for that issue; after the answer yes nothing more happens: the answer is the
\* last entry of the history (no issue shown, no prompt, no write after it) and
\* the session has returned.
C15_AbortTerminates ==
    /\ \A i \in Events("edit: cancel") :
        /\ i < Len(trace)
        /\ trace[i + 1] = Event("ask abort", trace[i].line)
        /\ Cardinality(EventsAt("ask abort", trace[i].line)) = 1
    /\ \A i \in Events("abort: yes") :
        /\ i = Len(trace)
        /\ trace[i - 1] = Event("ask abort", trace[i].line)
        /\ pc = "done"
        /\ session_ret # "running"

\* C15 witness: the abort confirmed at the first of two issues: the second was
\* never shown and the list is the input.
C15_Witness ==
    /\ Events("abort: yes") # {}
    /\ Len(issues) = 2
    /\ Len(Presented) = 1
    /\ Events("write") = {}
    /\ lines = file

\* The line numbers of the detected issues.
IssueLines == {issues[k].line_num : k \in DOMAIN issues}

\* C16: once process() has read the file, in every state the list has as many
\* lines as the file, a line whose number is not the line number of an issue
\* equals the file's line at the same position, and the header is the file's
\* header, so its field count is the one detection compared against.
C16_ShapeAndHeaderKept ==
    pc # "start" =>
        /\ Len(lines) = Len(file)
        /\ \A n \in DOMAIN file : n \notin IssueLines => lines[n] = file[n]
        /\ file # <<>> =>
            /\ lines[1] = file[1]
            /\ CountFieldsRespectingQuotes(lines[1]) = CountFieldsRespectingQuotes(file[1])

\* C16 witness: a three-line document whose line 2 is the only issue and was
\* rewritten; line 3 and the header are the file's.
C16_Witness ==
    /\ Len(file) = 3
    /\ IssueLines = {2}
    /\ outcomes = <<"Fixed">>
    /\ lines[2] # file[2]
    /\ lines[3] = file[3]
    /\ lines[1] = file[1]

\* C17: every detected issue has a line number from 2 to the number of lines of
\* the document, whatever the header holds, and every write of the session is to
\* such a line number, so to an index 1..len-1 of the list.
C17_IssueLinesInRange ==
    /\ \A k \in DOMAIN issues :
        /\ 2 <= issues[k].line_num
        /\ issues[k].line_num <= Len(file)
    /\ \A i \in Events("write") :
        /\ 2 <= trace[i].line
        /\ trace[i].line <= Len(lines)
        /\ trace[i].line - 1 \in 1..(Len(lines) - 1)

\* C17 witness: the header has an odd number of quotes, the last line of the
\* document is an issue and was written.
C17_Witness ==
    /\ file # <<>>
    /\ OddQuotes(file[1])
    /\ Len(file) \in IssueLines
    /\ EventsAt("write", Len(file)) # {}

\* C18 as stated: in every run detection has run once, as the first thing.
C18_DetectedOnceEveryRun ==
    pc # "start" => Events("detect") = {1}

\* C18: on a non-empty document detection runs once, before every prompt, and on
\* an empty one not at all; after that no step changes the list of issues, and
\* no issue is shown twice, whatever the edits made.
C18_DetectedOnceIssuesFixed ==
    /\ [](pc # "start" =>
            Events("detect") = IF file = <<>> THEN {} ELSE {1})
    /\ [][pc # "start" => issues' = issues]_vars
    /\ [](\A n \in IssueLines : Cardinality(EventsAt("present", n)) <= 1)

\* C18 witness: the first of two issues was rewritten to a line that detection
\* would still flag, with another diagnosis text than before; the list of issues
\* is the one found at the start and the second issue is being asked about.
C18_Witness ==
    /\ pc = "confirm_fix"
    /\ idx = 2
    /\ outcomes = <<"Fixed">>
    /\ issues = DetectFieldMismatches(file)
    /\ DetectFieldMismatches(lines) # issues
    /\ \E k \in DOMAIN DetectFieldMismatches(lines) :
        DetectFieldMismatches(lines)[k].line_num = issues[1].line_num
    /\ Events("detect") = {1}

\* The three situations a finished run of process() can be in.
NothingToFix == pc = "done" /\ file # <<>> /\ issues = <<>>
UserGaveUp == pc = "done" /\ Events("abort: yes") # {}
HardFailure == pc = "done" /\ file = <<>>

\* C19 as stated: the value returned after the user gave up differs from the
\* one returned for an empty file, and so does the one returned when nothing
\* needed fixing.
C19_ThreeValuesDistinct ==
    /\ UserGaveUp => result # EmptyFileReturn
    /\ NothingToFix => result # EmptyFileReturn
    /\ HardFailure => result = EmptyFileReturn

\* C19: process() returns the joined text when nothing needed fixing and None
\* both when the user gave up and for an empty file: the value tells the first
\* situation from the other two, and not these two from each other.
C19_TextOrNone ==
    /\ NothingToFix => result = Some(Join(file)) /\ result # None
    /\ UserGaveUp => result = None
    /\ HardFailure => result = None

\* C19 witness: the user gave up at the first issue of a non-empty document and
\* the value returned is the one returned for an empty file.
C19_Witness ==
    /\ UserGaveUp
    /\ file # <<>>
    /\ Events("error") = {}
    /\ result = EmptyFileReturn

\* C20: for a file with no line process() logs the error and returns None
\* without having run detection or asked anything; for a file of one line
\* detection has run and returned no issue, so nothing is asked either.
C20_EmptyAndHeaderOnly ==
    /\ (pc = "done" /\ file = <<>>) =>
        /\ trace = <<Event("error", 0)>>
        /\ issues = <<>>
        /\ result = None
        /\ session_ret = "not called"
    /\ (pc # "start" /\ Len(file) = 1) =>
        /\ pc = "done"
        /\ trace = <<Event("detect", 0)>>
        /\ issues = <<>>
        /\ session_ret = "not called"

\* C20 witness: the run on the empty file has ended with the error logged and
\* nothing else done.
C20_Witness ==
    /\ pc = "done"
    /\ file = <<>>
    /\ Events("error") = {1}
    /\ Events("detect") = {}
    /\ Events("ask fix") = {}

(***************************************************************************)
(* Properties of the prompts of core/user_input.py (SpecCalls)             *)
(***************************************************************************)
Returned(fn) == pc = "returned" /\ call.fn = fn

\* C21: what edit_text_interactive returned for a text and an intent is what it
\* returns for the same text and intent at the other backend.
C21_BackendsAgree ==
    Returned("edit_text_interactive") =>
        LET other == ~call.has_prompt_toolkit
            g == Gesture(other, call.text, call.intent) IN
        call_ret = EditTextInteractive(other, call.text, g.typed, g.interrupted)

\* A letter and its capital.
CasePairs ==
    { <<"c", "C">>, <<"a", "A">>, <<"n", "N">>, <<"e", "E">>, <<"l", "L">>,
      <<"q", "Q">>, <<"u", "U">>, <<"i", "I">>, <<"t", "T">> }

\* s is the word w in some mix of small and capital letters.
SpellsIgnoringCase(s, w) ==
    /\ Len(s) = Len(w)
    /\ \A i \in DOMAIN s : s[i] = w[i] \/ <<w[i], s[i]>> \in CasePairs

CancelWords ==
    { <<"c", "a", "n", "c", "e", "l">>, <<"c">>, <<"q", "u", "i", "t">>, <<"q">> }

\* t is s without the whitespace at its ends.
IsTrimOf(t, s) ==
    IF WhitespaceOnly(s) THEN t = <<>>
    ELSE \E i, j \in DOMAIN s :
            /\ i <= j
            /\ t = SubSeq(s, i, j)
            /\ s[i] \notin Whitespace
            /\ s[j] \notin Whitespace
            /\ \A k \in DOMAIN s : (k < i \/ k > j) => s[k] \in Whitespace

\* C22: without prompt_toolkit edit_text_interactive returns (it raises nothing)
\* the original text for an empty or whitespace-only input, None for an input
\* that is, trimmed, one of cancel, c, quit, q in any case, and the trimmed
\* input for any other input.
C22_FallbackContract ==
    (Returned("edit_text_interactive") /\ ~call.has_prompt_toolkit) =>
        /\ Len(entered) = 1
        /\ call_ret \in {None} \cup {Some(t) : t \in {call.text} \cup
                {SubSeq(entered[1], i, j) : i, j \in DOMAIN entered[1]}}
        /\ WhitespaceOnly(entered[1]) => call_ret = Some(call.text)
        /\ ~WhitespaceOnly(entered[1]) =>
            \E t \in {SubSeq(entered[1], i, j) : i, j \in DOMAIN entered[1]} :
                /\ IsTrimOf(t, entered[1])
                /\ IF \E w \in CancelWords : SpellsIgnoringCase(t, w)
                   THEN call_ret = None
                   ELSE call_ret = Some(t)

\* C22 witness: the fallback has returned None for " Quit" typed over a
\* non-empty original.
C22_Witness ==
    /\ Returned("edit_text_interactive")
    /\ ~call.has_prompt_toolkit
    /\ call.text = <<Letter, Comma, Letter>>
    /\ entered = << <<Space, "Q", "u", "i", "t">> >>
    /\ call_ret = None

\* The input decides a yes/no prompt: trimmed, it is empty or one of y, yes, n,
\* no in any case.
YesWords == { <<"y">>, <<"y", "e", "s">> }
NoWords == { <<"n">>, <<"n", "o">> }
YesNoCasePairs ==
    { <<"y", "Y">>, <<"e", "E">>, <<"s", "S">>, <<"n", "N">>, <<"o", "O">> }
SpellsYesNo(s, w) ==
    /\ Len(s) = Len(w)
    /\ \A i \in DOMAIN s : s[i] = w[i] \/ <<w[i], s[i]>> \in YesNoCasePairs
TrimsTo(s, words) ==
    \E i, j \in DOMAIN s :
        /\ IsTrimOf(SubSeq(s, i, j), s)
        /\ \E w \in words : SpellsYesNo(SubSeq(s, i, j), w)
Decides(s) == WhitespaceOnly(s) \/ TrimsTo(s, YesWords) \/ TrimsTo(s, NoWords)

\* C23: confirm_action has returned exactly when an input that decides has been
\* entered; that input is the last one entered and the first that decides; the
\* result is the default if it is empty, TRUE for y/yes, FALSE for n/no; until
\* then the call waits with the same default.
C23_FirstDecidingInput ==
    call.fn = "confirm_action" =>
        /\ \A i \in DOMAIN entered : Decides(entered[i]) => i = Len(entered)
        /\ pc = "returned" <=> (\E i \in DOMAIN entered : Decides(entered[i]))
        /\ pc = "returned" =>
            LET last == entered[Len(entered)] IN
            /\ WhitespaceOnly(last) => call_ret = Some(call.default)
            /\ TrimsTo(last, YesWords) => call_ret = Some(TRUE)
            /\ TrimsTo(last, NoWords) => call_ret = Some(FALSE)
        /\ pc = "call" => call_ret = None

\* C23 witness: two inputs that do not decide, then " No" against the default
\* yes: confirm_action has returned FALSE.
C23_Witness ==
    /\ Returned("confirm_action")
    /\ call.default = TRUE
    /\ entered = << <<"x">>, <<"y", "e", "p">>, <<Space, "N", "o">> >>
    /\ call_ret = Some(FALSE)

\* What the text entered at the menu says.
Said(text) == CHOOSE e \in MenuInputs : e.text = text

\* The text is a selection the menu over n options accepts: numbers, one of them
\* unless several are allowed, each from 1 to n.
IsSelection(text, n, allow_multiple) ==
    /\ Said(text).numeric
    /\ allow_multiple \/ Len(Said(text).numbers) = 1
    /\ \A k \in DOMAIN Said(text).numbers : Said(text).numbers[k] \in 1..n

\* C24: choose_from_list over n options has returned exactly when the last text
\* entered is 0, a cancel token or a selection it accepts; every text before it
\* was neither (non-numeric, or with a number outside 1..n) and the prompt was
\* repeated.  For 0 or a cancel token it returns None; for a selection it
\* returns, in order, each number entered minus 1, all in 0..n-1, and one index
\* only in single-selection mode.
C24_MenuSelection ==
    call.fn = "choose_from_list" =>
        /\ \A i \in DOMAIN entered :
            (Said(entered[i]).cancel
                \/ IsSelection(entered[i], call.n, call.allow_multiple))
            => i = Len(entered) /\ pc = "returned"
        /\ pc = "returned" =>
            LET last == Said(entered[Len(entered)]) IN
            /\ last.cancel \/ IsSelection(last.text, call.n, call.allow_multiple)
            /\ last.cancel => call_ret = None
            /\ ~last.cancel =>
                /\ call_ret # None
                /\ Len(call_ret.val) = Len(last.numbers)
                /\ \A k \in DOMAIN call_ret.val :
                    /\ call_ret.val[k] = last.numbers[k] - 1
                    /\ call_ret.val[k] \in 0..(call.n - 1)
                /\ ~call.allow_multiple => Len(call_ret.val) = 1
        /\ pc = "call" => call_ret = None

\* C24 witness: over three options with several selections allowed, "00" (a
\* number below 1) and "1," (not numbers) were rejected and "2, 1" returned the
\* indices 1, 0.
C24_Witness ==
    /\ Returned("choose_from_list")
    /\ call.n = 3
    /\ call.allow_multiple
    /\ entered = << <<"0", "0">>, <<"1", Comma>>, <<"2", Comma, Space, "1">> >>
    /\ call_ret = Some(<<1, 0>>)

\* C25: show_issue_and_prompt_fix over F fixes, having returned after the menu
\* gave the 0-based choice c, returns apply_fix with fix_index c when c < F, the
\* edit with the content the editor returned when c = F and editing is allowed,
\* and skip when c is the last option (F + 1 with editing allowed, F without);
\* after a cancel at the menu it returns None.
C25_ChoiceToAction ==
    Returned("show_issue_and_prompt_fix") =>
        LET F == call.num_fixes IN
        IF call.choice_index = None
        THEN /\ call_ret = None
             /\ Said(entered[Len(entered)]).cancel
        ELSE LET c == call.choice_index.val IN
             /\ c \in 0..(IF call.allow_edit THEN F + 1 ELSE F)
             /\ c < F =>
                    call_ret = Some([action |-> "apply_fix", fix_index |-> c])
             /\ (c = F /\ call.allow_edit /\ call.edited # None) =>
                    call_ret = Some([action |-> "edit",
                                     edited_content |-> call.edited.val])
             /\ (c = (IF call.allow_edit THEN F + 1 ELSE F)) =>
                    call_ret = Some([action |-> "skip"])

\* C25 witness: two fixes and editing allowed; after a rejected "x" the user
\* chose option 3, "edit manually", and the editor returned b.
C25_Witness ==
    /\ Returned("show_issue_and_prompt_fix")
    /\ call.num_fixes = 2
    /\ call.allow_edit
    /\ entered[1] = <<"x">>
    /\ call.choice_index = Some(2)
    /\ call.edited = Some(<<"b">>)
    /\ call_ret = Some([action |-> "edit", edited_content |-> <<"b">>])

\* The actions a decision of show_issue_and_prompt_fix carries.
DecisionActions == {"apply_fix", "edit", "skip"}

Called == [i \in DOMAIN trace |-> trace[i].ev]

\* C26 as stated: run() calls validate_input first and process only after it
\* returned true, and ends by returning: None when validate_input returned
\* false, None whatever validate_input or process raised.
C26_EveryExceptionBecomesNone ==
    call.fn = "run" =>
        /\ Called \in {<<>>, <<"validate_input">>, <<"validate_input", "process">>}
        /\ Events("process") # {} => call.validate = "True"
        /\ pc # "raised"
        /\ (pc = "returned" /\ call.validate # "True") => call_ret = None
        /\ (pc = "returned" /\ call.process \notin {"text", "None"}) =>
            call_ret = None

\* C26: run() calls validate_input first and process only after it returned
\* true; it returns None when validate_input returned false; an exception of
\* class Exception raised by either becomes the result None, and one that is not
\* of class Exception (KeyboardInterrupt) leaves run() uncaught.
C26_ValidateThenProcess ==
    call.fn = "run" =>
        /\ Called \in {<<>>, <<"validate_input">>, <<"validate_input", "process">>}
        /\ Events("process") # {} => call.validate = "True"
        /\ (pc = "returned" /\ call.validate = "False") => call_ret = None
        /\ (pc \in {"returned", "raised"} /\ call.validate = "Exception") =>
            pc = "returned" /\ call_ret = None
        /\ (pc \in {"returned", "raised"} /\ Events("process") # {}
                /\ call.process = "Exception") =>
            pc = "returned" /\ call_ret = None
        /\ pc = "raised" <=>
            \/ Called = <<"validate_input">> /\ call.validate = "KeyboardInterrupt"
            \/ Events("process") # {} /\ call.process = "KeyboardInterrupt"
        /\ pc = "raised" => call_ret = Raised("KeyboardInterrupt")

\* C26 witness: validate_input returned true, process raised an exception of
\* class Exception and run() returned None.
C26_Witness ==
    /\ Returned("run")
    /\ Called = <<"validate_input", "process">>
    /\ call.process = "Exception"
    /\ call_ret = None

(***************************************************************************)
(* Properties of the value process() returns and of termination (Spec,     *)
(* FairSpec)                                                               *)
(***************************************************************************)
\* The number of characters of the lines before line i.
RECURSIVE Before(_, _)
Before(ls, i) == IF i <= 1 THEN 0 ELSE Before(ls, i - 1) + Len(ls[i - 1])

\* text is the lines of ls one after the other, in their order.
IsConcatenation(text, ls) ==
    /\ Len(text) = Before(ls, Len(ls) + 1)
    /\ \A i \in DOMAIN ls : \A k \in DOMAIN ls[i] :
        text[Before(ls, i) + k] = ls[i][k]

\* A prompt of the session appears in the history.
Prompted == Events("ask fix") \cup Events("edit") \cup Events("ask abort") # {}

\* C27: when detection found no issue process() has asked nothing and returns
\* the lines of the file one after the other; every run that ends without the
\* user giving up, on a non-empty file, returns the lines of the list, repaired
\* or not, one after the other.
C27_ReturnsConcatenation ==
    /\ NothingToFix =>
        /\ ~Prompted
        /\ lines = file
        /\ result # None
        /\ IsConcatenation(result.val, file)
    /\ (pc = "done" /\ file # <<>> /\ ~UserGaveUp) =>
        /\ result # None
        /\ IsConcatenation(result.val, lines)

\* C27 witness: a three-line file with a blank line and a last line without
\* terminator, no issue found, six characters returned.
C27_Witness ==
    /\ NothingToFix
    /\ Len(file) = 3
    /\ file[2] = <<NL>>
    /\ file[3] = <<Letter>>
    /\ result = Some(<<Letter, NL, NL, Letter>>)

\* The entries of the history about line n that are calls of `ev`.
CountAt(ev, n) == Cardinality(EventsAt(ev, n))

\* C28: when every prompt gets a valid answer in the end the run reaches its
\* return, the session having returned the list or None; at any time at most as
\* many issues have been handled as were detected, and for each issue at most
\* one fix question, one editor call and one abort question have been issued.
C28_SessionTerminates ==
    /\ <>(pc = "done" /\ session_ret \in {"not called", "lines", "None"})
    /\ [](/\ Len(outcomes) <= Len(issues)
          /\ Len(Presented) <= Len(issues)
          /\ \A i \in DOMAIN trace : trace[i].line # 0 => trace[i].line \in IssueLines
          /\ \A n \in IssueLines :
                /\ CountAt("ask fix", n) <= 1
                /\ CountAt("edit", n) <= 1
                /\ CountAt("ask abort", n) <= 1)

\* C28 witness: a session over two issues that has returned the list after one
\* fix question, one editor call and one abort question for each.
C28_Witness ==
    /\ pc = "done"
    /\ session_ret = "lines"
    /\ Len(issues) = 2
    /\ outcomes = <<"EditCancelled", "EditCancelled">>
    /\ \A n \in IssueLines :
        CountAt("ask fix", n) = 1 /\ CountAt("edit", n) = 1
            /\ CountAt("ask abort", n) = 1

\* The line is a text without whitespace at its ends followed by one NL.
IsTrimmedLine(line) ==
    /\ Len(line) >= 2
    /\ line[Len(line)] = NL
    /\ line[1] \notin Whitespace
    /\ line[Len(line) - 1] \notin Whitespace

\* C29: the content of the current issue, which the editor is opened with, is
\* the line of the file without the whitespace at its ends; a step in which the
\* editor returns that content unchanged stores it followed by NL, and the
\* stored line equals the line it replaces exactly when that line had no
\* whitespace at its ends other than one final NL.
C29_KeepStoresTrimmed ==
    [][(pc = "edit" /\ fixed_line' = Some(issues[idx].line_content)) =>
        LET n == issues[idx].line_num IN
        /\ lines[n] = file[n]
        /\ IsTrimOf(issues[idx].line_content, file[n])
        /\ lines'[n] = issues[idx].line_content \o <<NL>>
        /\ lines'[n] = lines[n] <=> IsTrimmedLine(lines[n])]_vars

\* C29 witness: the user kept the text of line 2, " ,a " in the file: the list
\* holds ",a" and NL, which is not the file's line.
C29_Witness ==
    /\ outcomes = <<"Fixed">>
    /\ issues[1].line_num = 2
    /\ file[2] = <<Space, Comma, Letter, Space, NL>>
    /\ fixed_line = Some(issues[1].line_content)
    /\ lines[2] = <<Comma, Letter, NL>>

\* C30 as stated: edit_text_interactive never returns the empty text, and every
\* line the session wrote is a non-empty content followed by NL.
C30_NeverEmpty ==
    /\ Returned("edit_text_interactive") => call_ret # Some(<<>>)
    /\ fixed_line # Some(<<>>)
    /\ \A i \in Events("write") :
        /\ Len(lines[trace[i].line]) >= 2
        /\ lines[trace[i].line][Len(lines[trace[i].line])] = NL

\* C30: edit_text_interactive called with a non-empty text never returns the
\* empty text, at either backend (with an empty text the fallback returns it for
\* an empty input); in a session the editor is called with the non-empty content
\* of an issue, so it never returns the empty text there and every line the
\* session wrote is a non-empty content followed by NL.
C30_NeverEmptyFromNonEmpty ==
    /\ (Returned("edit_text_interactive") /\ call.text # <<>>) =>
        call_ret # Some(<<>>)
    /\ \A k \in DOMAIN issues : issues[k].line_content # <<>>
    /\ fixed_line # Some(<<>>)
    /\ \A i \in Events("write") :
        /\ Len(lines[trace[i].line]) >= 2
        /\ lines[trace[i].line][Len(lines[trace[i].line])] = NL

\* C30 witness: in a session with prompt_toolkit the editor once returned None
\* (the abort was declined) and once the one character Q, which was written as
\* the line Q and NL.
C30_Witness ==
    /\ rich
    /\ outcomes = <<"EditCancelled", "Fixed">>
    /\ fixed_line = Some(<<"Q">>)
    /\ lines[issues[2].line_num] = <<"Q", NL>>

(***************************************************************************)
(* Properties of repairs_made (Spec)                                       *)
(***************************************************************************)
\* The issues of the document whose line the session wrote.
Written == {k \in DOMAIN issues : EventsAt("write", issues[k].line_num) # {}}

\* C32: once process() has returned from a document with issues without the
\* user cancelling, repairs_made is the number of issues detected in the file,
\* whether their lines were written or left; it is 0 before the return, after a
\* return without issues, for the empty file and after the user cancelled.
C32_RepairsMadeCountsIssues ==
    /\ (pc = "done" /\ issues # <<>> /\ ~UserGaveUp) =>
        /\ result # None
        /\ repairs_made = Len(issues)
        /\ repairs_made = Len(DetectFieldMismatches(file))
        /\ repairs_made = Cardinality(IssueLines)
        /\ repairs_made >= Cardinality(Written)
    /\ pc # "done" => repairs_made = 0
    /\ NothingToFix => repairs_made = 0
    /\ HardFailure => repairs_made = 0
    /\ UserGaveUp => repairs_made = 0

\* C32 witness: two issues were detected, the user declined both and no line
\* was written: repairs_made is 2.
C32_Witness ==
    /\ pc = "done"
    /\ Len(issues) = 2
    /\ outcomes = <<"Declined", "Declined">>
    /\ Written = {}
    /\ lines = file
    /\ repairs_made = 2

====
